---- MODULE Spec2Model ----
(***************************************************************************)
(* The chat client (useWorker hook), the worker (worker.ts) and the        *)
(* context store (services/contextHandler.js) of webllm-experiment, with   *)
(* the two postMessage queues between client and worker.                   *)
(*                                                                         *)
(* Conventions.                                                            *)
(*  - A JS string is a TLA+ string; null/undefined message ids are 0       *)
(*    (Date.now() is never 0, and 0 is falsy like undefined).              *)
(*  - Every `data` payload is a record, so that payloads of different JS   *)
(*    types can sit in one queue: an error message s is [message |-> s].   *)
(*  - Fields named req, call, src and by are history (ghost) fields: they  *)
(*    name the request a message belongs to and are never read by the      *)
(*    modelled code, only by the properties.                               *)
(*  - 'debug' messages are left out: the client only logs them.            *)
(*  - React closures read `status` of the last render; the model reads the *)
(*    current value (every call is made after the re-render).              *)
(***************************************************************************)
EXTENDS Integers, Sequences, FiniteSets, TLC

VARIABLES
    status,       \* useWorker: const [status, setStatus] = useState('idle')
    error,        \* useWorker: const [error, setError] = useState(null)
    now,          \* the client's millisecond clock, Date.now()
    loads,        \* number of initializeWorker() calls made
    ctxCalls,     \* sendContextCommand() calls: their promise and listener
    genCalls,     \* generateResponse() calls: their promise and listener
    messages,     \* useChat: const [messages, setMessages] = useState([])
    chatContexts, \* useChat: const [contexts, setContexts] = useState([])
    toWorker,     \* messages posted to the worker, not yet handled
    toClient,     \* messages posted by the worker, not yet dispatched
    tokenizer,    \* worker: state.tokenizer is loaded
    model,        \* worker: state.model is loaded
    contexts,     \* contextHandler.js: let contexts = []
    loadJobs,     \* worker: 'load' handlers awaiting initialize()
    gens,         \* worker: generate() invocations, by call
    handled,      \* history: responses the worker posted, by context request
    truncateCall  \* worker: one call of truncateMessages, taken by itself

vars == <<status, error, now, loads, ctxCalls, genCalls, messages,
          chatContexts, toWorker, toClient,
          tokenizer, model, contexts, loadJobs, gens, handled, truncateCall>>

clientVars == <<status, error, now, loads, ctxCalls, genCalls, messages,
                chatContexts>>
workerVars == <<tokenizer, model, contexts, loadJobs, gens, handled>>

(***************************************************************************)
(* Program constants and bounds                                            *)
(***************************************************************************)
MAX_CONTEXT_LENGTH == 256
MAX_TOTAL_LENGTH == 512
MAX_MESSAGE_LENGTH == 128

MaxChunks == 1

(***************************************************************************)
(* The tokenization capability: a text and the number of tokens it has.    *)
(***************************************************************************)
Texts == {"sky", "page", "essay"}

Tokenize(text) ==
    CASE text = "sky" -> 4
      [] text = "page" -> 256
      [] text = "essay" -> 300
      [] text = "line" -> 20
      [] text = "para" -> 50
      [] text = "tok" -> 1
      [] text = "sorry" -> 12
      [] text = "" -> 0

Outputs == {"tok"}

(***************************************************************************)
(* JS values                                                               *)
(***************************************************************************)
Str(n) == [t |-> "string", v |-> n]
Obj(n) == [t |-> "object", id |-> Str(n)]

\* a === b for a string and a string-or-object
StrictEq(a, b) == a.t = "string" /\ b.t = "string" /\ a.v = b.v

Err(s) == [message |-> s]

RECURSIVE SumTokens(_)
SumTokens(ctxs) ==
    IF ctxs = <<>> THEN 0 ELSE Head(ctxs).tokens + SumTokens(Tail(ctxs))

(***************************************************************************)
(* services/contextHandler.js                                              *)
(***************************************************************************)
AddContextNoTotalCheck(ctxs, data, tok) ==
    LET tokenCount == Tokenize(data.text) IN
    IF ~tok THEN [ok |-> FALSE, contexts |-> ctxs,
                  data |-> Err("Tokenizer not initialized")]
    ELSE IF tokenCount > MAX_CONTEXT_LENGTH
    THEN [ok |-> FALSE, contexts |-> ctxs, data |-> Err("Context too long")]
    ELSE [ok |-> TRUE,
          contexts |-> Append(ctxs, [id |-> data.id, text |-> data.text,
                                     tokens |-> tokenCount,
                                     createdAt |-> data.createdAt]),
          data |-> [success |-> TRUE, id |-> data.id, tokenCount |-> tokenCount,
                    totalTokens |-> SumTokens(ctxs) + tokenCount]]

AddContextNoLengthCheck(ctxs, data, tok) ==
    LET tokenCount == Tokenize(data.text)
        existingTokens == SumTokens(ctxs)
    IN
    IF ~tok THEN [ok |-> FALSE, contexts |-> ctxs,
                  data |-> Err("Tokenizer not initialized")]
    ELSE IF existingTokens + tokenCount > MAX_TOTAL_LENGTH
    THEN [ok |-> FALSE, contexts |-> ctxs,
          data |-> Err("Adding this context would exceed total token limit")]
    ELSE [ok |-> TRUE,
          contexts |-> Append(ctxs, [id |-> data.id, text |-> data.text,
                                     tokens |-> tokenCount,
                                     createdAt |-> data.createdAt]),
          data |-> [success |-> TRUE, id |-> data.id, tokenCount |-> tokenCount,
                    totalTokens |-> existingTokens + tokenCount]]

AddContextPushFirst(ctxs, data, tok) ==
    LET tokenCount == Tokenize(data.text)
        existingTokens == SumTokens(ctxs)
        pushed == Append(ctxs, [id |-> data.id, text |-> data.text,
                                tokens |-> tokenCount,
                                createdAt |-> data.createdAt])
    IN
    IF ~tok THEN [ok |-> FALSE, contexts |-> ctxs,
                  data |-> Err("Tokenizer not initialized")]
    ELSE IF tokenCount > MAX_CONTEXT_LENGTH
    THEN [ok |-> FALSE, contexts |-> ctxs, data |-> Err("Context too long")]
    ELSE IF existingTokens + tokenCount > MAX_TOTAL_LENGTH
    THEN [ok |-> FALSE, contexts |-> pushed,
          data |-> Err("Adding this context would exceed total token limit")]
    ELSE [ok |-> TRUE, contexts |-> pushed,
          data |-> [success |-> TRUE, id |-> data.id, tokenCount |-> tokenCount,
                    totalTokens |-> existingTokens + tokenCount]]

AddContextStaleTotal(ctxs, data, tok) ==
    LET tokenCount == Tokenize(data.text)
        existingTokens == SumTokens(ctxs)
    IN
    IF ~tok THEN [ok |-> FALSE, contexts |-> ctxs,
                  data |-> Err("Tokenizer not initialized")]
    ELSE IF tokenCount > MAX_CONTEXT_LENGTH
    THEN [ok |-> FALSE, contexts |-> ctxs, data |-> Err("Context too long")]
    ELSE IF existingTokens + tokenCount > MAX_TOTAL_LENGTH
    THEN [ok |-> FALSE, contexts |-> ctxs,
          data |-> Err("Adding this context would exceed total token limit")]
    ELSE [ok |-> TRUE,
          contexts |-> Append(ctxs, [id |-> data.id, text |-> data.text,
                                     tokens |-> tokenCount,
                                     createdAt |-> data.createdAt]),
          data |-> [success |-> TRUE, id |-> data.id, tokenCount |-> tokenCount,
                    totalTokens |-> existingTokens]]

AddContext(ctxs, data, tok) ==
    LET tokenCount == Tokenize(data.text)
        existingTokens == SumTokens(ctxs)
    IN
    IF ~tok THEN [ok |-> FALSE, contexts |-> ctxs,
                  data |-> Err("Tokenizer not initialized")]
    ELSE IF tokenCount > MAX_CONTEXT_LENGTH
    THEN [ok |-> FALSE, contexts |-> ctxs, data |-> Err("Context too long")]
    ELSE IF existingTokens + tokenCount > MAX_TOTAL_LENGTH
    THEN [ok |-> FALSE, contexts |-> ctxs,
          data |-> Err("Adding this context would exceed total token limit")]
    ELSE [ok |-> TRUE,
          contexts |-> Append(ctxs, [id |-> data.id, text |-> data.text,
                                     tokens |-> tokenCount,
                                     createdAt |-> data.createdAt]),
          data |-> [success |-> TRUE, id |-> data.id, tokenCount |-> tokenCount,
                    totalTokens |-> existingTokens + tokenCount]]

RemoveContextInverted(ctxs, id) ==
    LET keep(ctx) == StrictEq(ctx.id, id)
        kept == SelectSeq(ctxs, keep)
    IN [ok |-> TRUE, contexts |-> kept,
        data |-> [success |-> TRUE, totalTokens |-> SumTokens(kept)]]

\* removeContext(id): contexts.filter(ctx => ctx.id !== id)
RemoveContext(ctxs, id) ==
    LET keep(ctx) == ~StrictEq(ctx.id, id)
        kept == SelectSeq(ctxs, keep)
    IN [ok |-> TRUE, contexts |-> kept,
        data |-> [success |-> TRUE, totalTokens |-> SumTokens(kept)]]

ClearContextsKeepsStore(ctxs) ==
    [ok |-> TRUE, contexts |-> ctxs,
     data |-> [success |-> TRUE, totalTokens |-> 0]]

ClearContexts(ctxs) ==
    [ok |-> TRUE, contexts |-> <<>>,
     data |-> [success |-> TRUE, totalTokens |-> 0]]

ListContexts(ctxs) ==
    [ok |-> TRUE, contexts |-> ctxs, data |-> [list |-> ctxs]]

(***************************************************************************)
(* worker.ts: selectRelevantContexts                                       *)
(***************************************************************************)
\* one step of the stable sort: ctx goes behind every context that is at
\* least as recent
RECURSIVE InsertByRecency(_, _)
InsertByRecency(sorted, ctx) ==
    IF sorted = <<>> THEN <<ctx>>
    ELSE IF Head(sorted).createdAt >= ctx.createdAt
    THEN <<Head(sorted)>> \o InsertByRecency(Tail(sorted), ctx)
    ELSE <<ctx>> \o sorted

\* [...contexts].sort((a, b) => b.createdAt - a.createdAt)
RECURSIVE SortedContexts(_)
SortedContexts(ctxs) ==
    IF ctxs = <<>> THEN <<>>
    ELSE InsertByRecency(SortedContexts(SubSeq(ctxs, 1, Len(ctxs) - 1)),
                         ctxs[Len(ctxs)])

RECURSIVE TakeEveryFit(_, _, _)
TakeEveryFit(sorted, totalTokens, availableTokens) ==
    IF sorted = <<>> THEN <<>>
    ELSE IF totalTokens + Head(sorted).tokens <= availableTokens
    THEN <<Head(sorted)>>
           \o TakeEveryFit(Tail(sorted), totalTokens + Head(sorted).tokens,
                           availableTokens)
    ELSE TakeEveryFit(Tail(sorted), totalTokens, availableTokens)

\* a loop that would take a context only if it leaves room
RECURSIVE TakeWhileFitsStrict(_, _, _)
TakeWhileFitsStrict(sorted, totalTokens, availableTokens) ==
    IF sorted = <<>> THEN <<>>
    ELSE IF totalTokens + Head(sorted).tokens < availableTokens
    THEN <<Head(sorted)>>
           \o TakeWhileFitsStrict(Tail(sorted), totalTokens + Head(sorted).tokens,
                                  availableTokens)
    ELSE <<>>

\* the loop: take contexts while the running total stays within
\* availableTokens, and break at the first one that does not fit
RECURSIVE TakeWhileFits(_, _, _)
TakeWhileFits(sorted, totalTokens, availableTokens) ==
    IF sorted = <<>> THEN <<>>
    ELSE IF totalTokens + Head(sorted).tokens <= availableTokens
    THEN <<Head(sorted)>>
           \o TakeWhileFits(Tail(sorted), totalTokens + Head(sorted).tokens,
                            availableTokens)
    ELSE <<>>

SelectedContextsTotalBudget(ctxs) ==
    LET availableTokens == MAX_TOTAL_LENGTH
    IN TakeWhileFits(SortedContexts(ctxs), 0, availableTokens)

\* selectedContexts at the end of the loop
SelectedContexts(ctxs) ==
    LET availableTokens == MAX_CONTEXT_LENGTH
    IN TakeWhileFits(SortedContexts(ctxs), 0, availableTokens)

\* the text returned, as the bodies that are joined by blank lines
SelectRelevantContexts(ctxs) ==
    LET selectedContexts == SelectedContexts(ctxs)
    IN [i \in 1..Len(selectedContexts) |-> selectedContexts[i].text]

(***************************************************************************)
(* worker.ts: getTokenCount and truncateMessages. The content of a message *)
(* is the sequence of the texts it was put together from.                  *)
(***************************************************************************)
RECURSIVE GetTokenCount(_)
GetTokenCount(content) ==
    IF content = <<>> THEN 0
    ELSE Tokenize(Head(content)) + GetTokenCount(Tail(content))

\* [...messages].reverse()
RECURSIVE Reverse(_)
Reverse(seq) ==
    IF seq = <<>> THEN <<>> ELSE Append(Reverse(Tail(seq)), Head(seq))

RECURSIVE TruncateLoopSkipping(_, _, _, _)
TruncateLoopSkipping(reversedMessages, totalTokens, truncatedMessages, maxTokens) ==
    IF reversedMessages = <<>> THEN truncatedMessages
    ELSE LET message == Head(reversedMessages)
             tokens == GetTokenCount(message.content)
         IN IF totalTokens + tokens <= maxTokens
            THEN TruncateLoopSkipping(Tail(reversedMessages), totalTokens + tokens,
                                      <<message>> \o truncatedMessages, maxTokens)
            ELSE TruncateLoopSkipping(Tail(reversedMessages), totalTokens,
                                      truncatedMessages, maxTokens)

RECURSIVE TruncateLoopStrict(_, _, _, _)
TruncateLoopStrict(reversedMessages, totalTokens, truncatedMessages, maxTokens) ==
    IF reversedMessages = <<>> THEN truncatedMessages
    ELSE LET message == Head(reversedMessages)
             tokens == GetTokenCount(message.content)
         IN IF totalTokens + tokens < maxTokens
            THEN TruncateLoopStrict(Tail(reversedMessages), totalTokens + tokens,
                                    <<message>> \o truncatedMessages, maxTokens)
            ELSE truncatedMessages

\* the loop over reversedMessages: unshift while the running total stays
\* within maxTokens, break at the first message that does not fit
RECURSIVE TruncateLoop(_, _, _, _)
TruncateLoop(reversedMessages, totalTokens, truncatedMessages, maxTokens) ==
    IF reversedMessages = <<>> THEN truncatedMessages
    ELSE LET message == Head(reversedMessages)
             tokens == GetTokenCount(message.content)
         IN IF totalTokens + tokens <= maxTokens
            THEN TruncateLoop(Tail(reversedMessages), totalTokens + tokens,
                              <<message>> \o truncatedMessages, maxTokens)
            ELSE truncatedMessages

TruncateMessages(msgs, maxTokens) ==
    TruncateLoop(Reverse(msgs), 0, <<>>, maxTokens)

\* no call of truncateMessages is looked at by itself
NoTruncateCall ==
    [messages |-> <<>>, maxTokens |-> 0, returned |-> FALSE,
     truncatedMessages |-> <<>>]

(***************************************************************************)
(* worker.ts: generate, the messages given to the chat template            *)
(***************************************************************************)
\* `Consider this context:\n\n${relevantContexts}\n\nRespond based on ...`
SystemMessage(relevantContexts) ==
    [role |-> "system",
     content |-> <<"Consider this context:">> \o relevantContexts
                   \o <<"Respond based on this context when relevant.">>]

\* if (relevantContexts): the joined text is not the empty string
NonEmptyText(bodies) ==
    ~(bodies = <<>> \/ (Len(bodies) = 1 /\ bodies[1] = ""))

ContextualizedMessagesAlways(ctxs, msgs) ==
    LET relevantContexts == SelectRelevantContexts(ctxs)
        truncatedMessages == TruncateMessages(msgs, MAX_MESSAGE_LENGTH)
    IN <<SystemMessage(relevantContexts)>> \o truncatedMessages

ContextualizedMessages(ctxs, msgs) ==
    LET relevantContexts == SelectRelevantContexts(ctxs)
        truncatedMessages == TruncateMessages(msgs, MAX_MESSAGE_LENGTH)
    IN IF NonEmptyText(relevantContexts)
       THEN <<SystemMessage(relevantContexts)>> \o truncatedMessages
       ELSE truncatedMessages

(***************************************************************************)
(* worker.ts: messages                                                     *)
(***************************************************************************)
Undefined == [t |-> "undefined"]

\* self.postMessage({status, messageId, output, data}); src names the origin
Response(st, mid, out, d, kind, id) ==
    [status |-> st, messageId |-> mid, output |-> out, data |-> d,
     src |-> [kind |-> kind, id |-> id], n |-> 0]

(***************************************************************************)
(* worker.ts: handleContextCommand                                         *)
(***************************************************************************)
\* the switch: the result, or the error thrown
ContextResult(ctxs, tok, command, data) ==
    CASE command = "add" -> AddContext(ctxs, data, tok)
      [] command = "remove" -> RemoveContext(ctxs, data)
      [] command = "clear" -> ClearContexts(ctxs)
      [] command = "list" -> ListContexts(ctxs)
      [] OTHER -> [ok |-> FALSE, contexts |-> ctxs,
                   data |-> Err("Unknown context command")]

HandleContextCommandSilentDefault(ctxs, tok, command, data, messageId, req) ==
    LET r == ContextResult(ctxs, tok, command, data) IN
    [contexts |-> r.contexts,
     posted |-> IF command = "add" \/ command = "remove"
                   \/ command = "clear" \/ command = "list"
                THEN <<Response(IF r.ok THEN "success" ELSE "error",
                                messageId, "", r.data, "ctx", req)>>
                ELSE <<>>]

HandleContextCommand(ctxs, tok, command, data, messageId, req) ==
    LET r == ContextResult(ctxs, tok, command, data) IN
    [contexts |-> r.contexts,
     posted |-> <<Response(IF r.ok THEN "success" ELSE "error",
                           messageId, "", r.data, "ctx", req)>>]

(***************************************************************************)
(* worker.ts: the message handler, one action per message type             *)
(***************************************************************************)
\* case "check": await checkWebGPU(); a failure is caught and posted
WorkerCheck ==
    /\ toWorker # <<>>
    /\ Head(toWorker).type = "check"
    /\ toWorker' = Tail(toWorker)
    /\ \E gpu \in BOOLEAN :
         toClient' = IF gpu THEN toClient
                     ELSE Append(toClient,
                                 Response("error", 0, "",
                                          Err("WebGPU not supported"), "check", 0))
    /\ UNCHANGED workerVars
    /\ UNCHANGED clientVars
    /\ UNCHANGED truncateCall

\* case "load": the handler starts and awaits initialize()
WorkerLoadStart ==
    /\ toWorker # <<>>
    /\ Head(toWorker).type = "load"
    /\ toWorker' = Tail(toWorker)
    /\ loadJobs' = loadJobs + 1
    /\ UNCHANGED <<tokenizer, model, contexts, gens, handled, toClient>>
    /\ UNCHANGED clientVars
    /\ UNCHANGED truncateCall

\* where initialize() stops: at WebGPU, the tokenizer or the model, or nowhere
LoadOutcomes == {"gpu", "tokenizer", "model", "ok"}

\* a 'load' case that would post 'ready' whatever initialize() did
WorkerLoadFinishAlwaysReady ==
    /\ loadJobs > 0
    /\ loadJobs' = loadJobs - 1
    /\ \E outcome \in LoadOutcomes :
         /\ tokenizer' = (tokenizer \/ outcome = "model" \/ outcome = "ok")
         /\ model' = (model \/ outcome = "ok")
         /\ toClient' = Append(toClient, Response("ready", 0, "", Undefined, "load", 0))
    /\ UNCHANGED <<contexts, gens, handled, toWorker>>
    /\ UNCHANGED clientVars
    /\ UNCHANGED truncateCall

\* an initialize() whose failure would not be reported
WorkerLoadFinishSilentFailure ==
    /\ loadJobs > 0
    /\ loadJobs' = loadJobs - 1
    /\ \E outcome \in LoadOutcomes :
         /\ tokenizer' = (tokenizer \/ outcome = "model" \/ outcome = "ok")
         /\ model' = (model \/ outcome = "ok")
         /\ toClient' =
              IF outcome = "ok"
              THEN Append(toClient, Response("ready", 0, "", Undefined, "load", 0))
              ELSE toClient
    /\ UNCHANGED <<contexts, gens, handled, toWorker>>
    /\ UNCHANGED clientVars
    /\ UNCHANGED truncateCall

\* initialize() ends: WebGPU, tokenizer and model, each of which may fail;
\* then self.postMessage({status: 'ready'}), or the catch posts the error
WorkerLoadFinish ==
    /\ loadJobs > 0
    /\ loadJobs' = loadJobs - 1
    /\ \E outcome \in LoadOutcomes :
         /\ tokenizer' = (tokenizer \/ outcome = "model" \/ outcome = "ok")
         /\ model' = (model \/ outcome = "ok")
         /\ toClient' =
              Append(toClient,
                     IF outcome = "ok"
                     THEN Response("ready", 0, "", Undefined, "load", 0)
                     ELSE Response("error", 0, "",
                                   Err("Initialization failed"), "load", 0))
    /\ UNCHANGED <<contexts, gens, handled, toWorker>>
    /\ UNCHANGED clientVars
    /\ UNCHANGED truncateCall

\* case "context": if (command) await handleContextCommand(command, data,
\* messageId || Date.now())
WorkerContext ==
    /\ toWorker # <<>>
    /\ Head(toWorker).type = "context"
    /\ toWorker' = Tail(toWorker)
    /\ LET m == Head(toWorker)
           mid == IF m.messageId # 0 THEN m.messageId ELSE now
           h == HandleContextCommand(contexts, tokenizer, m.command, m.data,
                                     mid, m.req)
       IN IF m.command # ""
          THEN /\ contexts' = h.contexts
               /\ toClient' = toClient \o h.posted
               /\ handled' = handled @@ (m.req :> h.posted)
          ELSE /\ handled' = handled @@ (m.req :> <<>>)
               /\ UNCHANGED <<contexts, toClient>>
    /\ UNCHANGED <<tokenizer, model, loadJobs, gens>>
    /\ UNCHANGED clientVars
    /\ UNCHANGED truncateCall

\* case "generate": generate(data) throws at once without tokenizer or model,
\* otherwise it starts streaming
WorkerGenerateStart ==
    /\ toWorker # <<>>
    /\ Head(toWorker).type = "generate"
    /\ toWorker' = Tail(toWorker)
    /\ LET c == Head(toWorker).call IN
       IF ~tokenizer \/ ~model
       THEN /\ gens' = gens @@ (c :> [phase |-> "failed", emitted |-> 0,
                                      selected |-> <<>>, prompt |-> <<>>])
            /\ toClient' = Append(toClient,
                                  Response("error", 0, "",
                                           Err("Model not initialized"), "gen", c))
       ELSE /\ gens' = gens @@ (c :> [phase |-> "running", emitted |-> 0,
                                      selected |-> SelectedContexts(contexts),
                                      prompt |-> ContextualizedMessages(
                                                    contexts, Head(toWorker).data)])
            /\ UNCHANGED toClient
    /\ UNCHANGED <<tokenizer, model, contexts, loadJobs, handled>>
    /\ UNCHANGED clientVars
    /\ UNCHANGED truncateCall

\* a streamer that would call back whatever the state of the generation
WorkerEmitChunkAfterEnd(c) ==
    /\ c \in DOMAIN gens
    /\ \E out \in Outputs :
         toClient' = Append(toClient,
                            [Response("update", 0, out, Undefined, "gen", c)
                               EXCEPT !.n = gens[c].emitted + 1])
    /\ gens' = [gens EXCEPT ![c].emitted = @ + 1]
    /\ UNCHANGED <<tokenizer, model, contexts, loadJobs, handled, toWorker>>
    /\ UNCHANGED clientVars
    /\ UNCHANGED truncateCall

\* the streamer's callback_function: self.postMessage({status: 'update', output})
WorkerEmitChunk(c) ==
    /\ c \in DOMAIN gens
    /\ gens[c].phase = "running"
    /\ \E out \in Outputs :
         toClient' = Append(toClient,
                            [Response("update", 0, out, Undefined, "gen", c)
                               EXCEPT !.n = gens[c].emitted + 1])
    /\ gens' = [gens EXCEPT ![c].emitted = @ + 1]
    /\ UNCHANGED <<tokenizer, model, contexts, loadJobs, handled, toWorker>>
    /\ UNCHANGED clientVars
    /\ UNCHANGED truncateCall

\* model.generate() returned: self.postMessage({status: 'success'})
WorkerGenerateSuccess(c) ==
    /\ c \in DOMAIN gens
    /\ gens[c].phase = "running"
    /\ gens' = [gens EXCEPT ![c].phase = "success"]
    /\ toClient' = Append(toClient, Response("success", 0, "", Undefined, "gen", c))
    /\ UNCHANGED <<tokenizer, model, contexts, loadJobs, handled, toWorker>>
    /\ UNCHANGED clientVars
    /\ UNCHANGED truncateCall

\* a failure whose error message would overtake the chunks already posted
WorkerGenerateFailOvertakes(c) ==
    /\ c \in DOMAIN gens
    /\ gens[c].phase = "running"
    /\ gens' = [gens EXCEPT ![c].phase = "failed"]
    /\ toClient' = <<Response("error", 0, "", Err("Generation failed"), "gen", c)>>
                      \o toClient
    /\ UNCHANGED <<tokenizer, model, contexts, loadJobs, handled, toWorker>>
    /\ UNCHANGED clientVars
    /\ UNCHANGED truncateCall

\* the capability throws: generate() rethrows and the handler's catch posts
\* {status: 'error', messageId: undefined, data: error.message}
WorkerGenerateFail(c) ==
    /\ c \in DOMAIN gens
    /\ gens[c].phase = "running"
    /\ gens' = [gens EXCEPT ![c].phase = "failed"]
    /\ toClient' = Append(toClient,
                          Response("error", 0, "", Err("Generation failed"), "gen", c))
    /\ UNCHANGED <<tokenizer, model, contexts, loadJobs, handled, toWorker>>
    /\ UNCHANGED clientVars
    /\ UNCHANGED truncateCall

\* a sendContextCommand without the status check
ContextCommandAcceptedAlways(st, command) == TRUE

(***************************************************************************)
(* useWorker: sendContextCommand                                           *)
(***************************************************************************)
ContextCommandAcceptedReadyOnly(st, command) == st = "ready"

\* if (status !== 'ready' && command !== 'list') reject('Worker not ready')
ContextCommandAccepted(st, command) == ~(st # "ready" /\ command # "list")

\* const messageId = Date.now()
NewMessageId(clock) == clock

\* handleResponse, the listener of one pending command, on message m
HandleResponse(call, req, m) ==
    IF m.messageId = call.messageId
    THEN [call EXCEPT !.state = IF m.status = "error" THEN "rejected" ELSE "resolved",
                      !.value = m.data,
                      !.by = m.src]
    ELSE call

\* sendContextCommand(command, data), called by useChat's operation op, as
\* what it adds to the calls made and to the messages posted
PostContextCommand(calls, queue, op, command, data) ==
    LET req == Len(calls) + 1
        messageId == NewMessageId(now)
        busy == \E j \in 1..Len(genCalls) : genCalls[j].state = "pending"
    IN IF ~ContextCommandAccepted(status, command)
       THEN [ctxCalls |-> Append(calls,
                      [command |-> command, data |-> Undefined,
                       busyAtCall |-> busy, op |-> op,
                       messageId |-> 0, sent |-> FALSE,
                       state |-> "rejected", value |-> Err("Worker not ready"),
                       by |-> [kind |-> "client", id |-> 0]]),
             toWorker |-> queue]
       ELSE [ctxCalls |-> Append(calls,
                      [command |-> command, data |-> data,
                       busyAtCall |-> busy, op |-> op,
                       messageId |-> messageId, sent |-> TRUE,
                       state |-> "pending", value |-> Undefined,
                       by |-> [kind |-> "none", id |-> 0]]),
             toWorker |-> Append(queue,
                      [type |-> "context", command |-> command, data |-> data,
                       messageId |-> messageId, req |-> req])]

\* sendContextCommand called by useChat's operation op ("none": called by
\* itself)
SendContextCommandFor(op, command, data) ==
    /\ LET posted == PostContextCommand(ctxCalls, toWorker, op, command, data)
       IN /\ ctxCalls' = posted.ctxCalls
          /\ toWorker' = posted.toWorker
    /\ UNCHANGED <<status, error, now, loads, genCalls, messages, chatContexts,
                   toClient>>
    /\ UNCHANGED workerVars
    /\ UNCHANGED truncateCall

SendContextCommand(command, data) == SendContextCommandFor("none", command, data)

\* the command names of the switch, a name it does not know, and no name
Commands == {"add", "remove", "clear", "list", "purge", ""}

\* the commands of the store
StoreCommands == {"add", "remove", "clear", "list"}

\* the commands issued between generations
GenCommands == {"add", "list"}

\* the command that fills the store before a generation
PromptCommands == {"add"}

\* the payloads useChat sends: add {id: `ctx_${Date.now()}`, text, createdAt},
\* remove {id}, clear and list nothing
Payloads(command) ==
    CASE command = "add" ->
           {[t |-> "object", id |-> Str(now), text |-> txt, createdAt |-> now] :
              txt \in Texts}
      [] command = "remove" ->
           {Obj(n) : n \in {0} \cup {contexts[i].id.v : i \in 1..Len(contexts)}}
      [] OTHER -> {Undefined}

(***************************************************************************)
(* useWorker: generateResponse                                             *)
(***************************************************************************)
GenerateAcceptedUnlessIdle(st) == st # "idle"

\* if (status !== 'ready' || !worker.current) throw new Error('Worker not ready')
GenerateAccepted(st) == st = "ready"

\* a handleMessage that would not settle the call on 'success'
HandleMessageSuccessKeepsPending(call, m) ==
    IF m.status = "update" /\ m.output # ""
    THEN [call EXCEPT !.chunks = Append(@, [gen |-> m.src.id, output |-> m.output,
                                            n |-> m.n])]
    ELSE IF m.status = "error"
    THEN [call EXCEPT !.state = "rejected", !.value = m.data, !.by = m.src]
    ELSE call

HandleMessageErrorKeepsPending(call, m) ==
    IF m.status = "update" /\ m.output # ""
    THEN [call EXCEPT !.chunks = Append(@, [gen |-> m.src.id, output |-> m.output,
                                            n |-> m.n])]
    ELSE IF m.status = "success"
    THEN [call EXCEPT !.state = "resolved", !.by = m.src]
    ELSE call

\* handleMessage, the listener of one pending generateResponse call, on m:
\* the call's promise and the chunks passed to its onUpdate
HandleMessage(call, m) ==
    IF m.status = "update" /\ m.output # ""
    THEN [call EXCEPT !.chunks = Append(@, [gen |-> m.src.id, output |-> m.output,
                                            n |-> m.n])]
    ELSE IF m.status = "error"
    THEN [call EXCEPT !.state = "rejected", !.value = m.data, !.by = m.src]
    ELSE IF m.status = "success"
    THEN [call EXCEPT !.state = "resolved", !.by = m.src]
    ELSE call

\* handleMessage's setError(data.data); setStatus('error')
HandleMessageGlobal(g, m) ==
    IF m.status = "error"
    THEN [status |-> "error", error |-> m.data.message]
    ELSE g

GenerateResponse(msgs) ==
    /\ LET c == Len(genCalls) + 1
           busy == \E j \in 1..Len(genCalls) : genCalls[j].state = "pending"
       IN IF ~GenerateAccepted(status)
          THEN /\ genCalls' = Append(genCalls,
                      [messages |-> msgs,
                       statusAtCall |-> status, busyAtCall |-> busy, sent |-> FALSE,
                       state |-> "rejected", value |-> Err("Worker not ready"),
                       chunks |-> <<>>, by |-> [kind |-> "client", id |-> 0]])
               /\ UNCHANGED toWorker
          ELSE /\ genCalls' = Append(genCalls,
                      [messages |-> msgs,
                       statusAtCall |-> status, busyAtCall |-> busy, sent |-> TRUE,
                       state |-> "pending", value |-> Undefined,
                       chunks |-> <<>>, by |-> [kind |-> "none", id |-> 0]])
               /\ toWorker' = Append(toWorker, [type |-> "generate", data |-> msgs,
                                                call |-> c])
    /\ UNCHANGED <<status, error, now, loads, ctxCalls, chatContexts, toClient>>
    /\ UNCHANGED <<tokenizer, model, contexts, loadJobs, gens, handled>>
    /\ UNCHANGED truncateCall

(***************************************************************************)
(* useChat: sendMessage                                                    *)
(***************************************************************************)
\* createMessage(role, content); id and timestamp are left out
CreateMessage(role, content) == [role |-> role, content |-> content]

\* '\n\nSorry, an error occurred while generating the response.'
Apology == "sorry"

\* updateLastMessage that would add a message instead of extending the last
UpdateLastMessageAppends(msgs, content) ==
    Append(msgs, [role |-> "system", content |-> <<content>>])

\* updateLastMessage(content): append to the content of the last message
UpdateLastMessage(msgs, content) ==
    IF msgs = <<>> THEN msgs
    ELSE [msgs EXCEPT ![Len(msgs)].content = @ \o <<content>>]

\* updateLastMessage called once by each of n listeners
RECURSIVE UpdateLastMessageTimes(_, _, _)
UpdateLastMessageTimes(msgs, content, n) ==
    IF n = 0 THEN msgs
    ELSE UpdateLastMessageTimes(UpdateLastMessage(msgs, content), content, n - 1)

\* sendMessage(userMessage): the user message and an empty assistant message
\* are added, generateResponse is called with [...messages, userMsg], and
\* its synchronous failure is caught
SendMessage(userMessage) ==
    /\ GenerateResponse(Append(messages, CreateMessage("user", <<userMessage>>)))
    /\ LET added == messages \o <<CreateMessage("user", <<userMessage>>),
                                   CreateMessage("assistant", <<>>)>>
       IN messages' = IF ~GenerateAccepted(status)
                      THEN UpdateLastMessage(added, Apology)
                      ELSE added

(***************************************************************************)
(* useWorker: initializeWorker, messageHandler and the dispatch of one     *)
(* message to every listener                                               *)
(***************************************************************************)
InitializeWorker ==
    /\ loads' = loads + 1
    /\ status' = "loading"
    /\ toWorker' = Append(toWorker, [type |-> "load"])
    /\ UNCHANGED <<error, now, ctxCalls, genCalls, messages, chatContexts,
                   toClient>>
    /\ UNCHANGED workerVars
    /\ UNCHANGED truncateCall

\* a messageHandler that would reset the status on a 'success' message
MessageHandlerSuccessIdles(g, m) ==
    IF m.status = "ready" THEN [status |-> "ready", error |-> "null"]
    ELSE IF m.status = "success" THEN [status |-> "idle", error |-> "null"]
    ELSE IF m.status = "error" /\ m.messageId = 0
    THEN [status |-> "error", error |-> m.data.message]
    ELSE g

\* messageHandler: 'ready' sets ready and clears the error; an 'error' without
\* messageId sets the error
MessageHandler(g, m) ==
    IF m.status = "ready" THEN [status |-> "ready", error |-> "null"]
    ELSE IF m.status = "error" /\ m.messageId = 0
    THEN [status |-> "error", error |-> m.data.message]
    ELSE g

\* what the n listening generateResponse calls do to useChat's messages on
\* m: onUpdate is updateLastMessage, and a rejection is caught by sendMessage
OnMessage(msgs, m, n) ==
    IF m.status = "update" /\ m.output # ""
    THEN UpdateLastMessageTimes(msgs, m.output, n)
    ELSE IF m.status = "error"
    THEN UpdateLastMessageTimes(msgs, Apology, n)
    ELSE msgs

\* useChat's contexts before any list was fetched, and after a clear
NoContexts == [list |-> <<>>]

\* useChat.addContext and removeContext go on with sendContextCommand('list')
RefreshingOps == {"addContext", "removeContext"}

\* what useChat does when the sendContextCommand call it awaits has settled:
\* after an add or a remove that resolved it sends 'list', after that list
\* it calls setContexts with the value received, after a clear that resolved
\* it calls setContexts([]); a rejection is caught and changes nothing
Continuation(acc, call) ==
    IF call.state = "resolved" /\ call.op \in RefreshingOps
    THEN LET posted == PostContextCommand(acc.ctxCalls, acc.toWorker,
                                          "refresh", "list", Undefined)
         IN [acc EXCEPT !.ctxCalls = posted.ctxCalls, !.toWorker = posted.toWorker]
    ELSE IF call.state = "resolved" /\ call.op = "refresh"
    THEN [acc EXCEPT !.chatContexts = call.value]
    ELSE IF call.state = "resolved" /\ call.op = "clearContexts"
    THEN [acc EXCEPT !.chatContexts = NoContexts]
    ELSE acc

\* the continuations of the calls that were pending before the dispatch,
\* in the order of their listeners
RECURSIVE Continuations(_, _, _)
Continuations(r, before, acc) ==
    IF r > Len(before) THEN acc
    ELSE Continuations(r + 1, before,
                       IF before[r].state = "pending" /\ acc.ctxCalls[r].state # "pending"
                       THEN Continuation(acc, acc.ctxCalls[r])
                       ELSE acc)

ClientReceive ==
    /\ toClient # <<>>
    /\ toClient' = Tail(toClient)
    /\ LET m == Head(toClient)
           g0 == MessageHandler([status |-> status, error |-> error], m)
           listening == \E c \in 1..Len(genCalls) : genCalls[c].state = "pending"
           g1 == IF listening THEN HandleMessageGlobal(g0, m) ELSE g0
       IN /\ status' = g1.status
          /\ error' = g1.error
          /\ LET settled == [r \in 1..Len(ctxCalls) |->
                               IF ctxCalls[r].state = "pending"
                               THEN HandleResponse(ctxCalls[r], r, m)
                               ELSE ctxCalls[r]]
                 after == Continuations(1, ctxCalls,
                                        [ctxCalls |-> settled,
                                         toWorker |-> toWorker,
                                         chatContexts |-> chatContexts])
             IN /\ ctxCalls' = after.ctxCalls
                /\ toWorker' = after.toWorker
                /\ chatContexts' = after.chatContexts
          /\ genCalls' = [c \in 1..Len(genCalls) |->
                            IF genCalls[c].state = "pending"
                            THEN HandleMessage(genCalls[c], m)
                            ELSE genCalls[c]]
          /\ messages' = OnMessage(messages, m,
                                   Cardinality({c \in 1..Len(genCalls) :
                                                  genCalls[c].state = "pending"}))
    /\ UNCHANGED <<now, loads>>
    /\ UNCHANGED workerVars
    /\ UNCHANGED truncateCall

\* The clock moves on to the next millisecond in which something is done.
\* Date.now() values are only ever compared with each other, so milliseconds
\* in which no command is sent are skipped: the clock advances only past a
\* value a command has taken.
Tick ==
    /\ \E r \in 1..Len(ctxCalls) : ctxCalls[r].messageId = now
    /\ now' = now + 1
    /\ UNCHANGED <<status, error, loads, ctxCalls, genCalls, messages,
                   chatContexts, toWorker, toClient>>
    /\ UNCHANGED workerVars
    /\ UNCHANGED truncateCall

(***************************************************************************)
(* The system                                                              *)
(***************************************************************************)
\* after mount: the worker is created and {type: 'check'} posted
Init ==
    /\ status = "idle"
    /\ error = "null"
    /\ now = 1
    /\ loads = 0
    /\ ctxCalls = <<>>
    /\ genCalls = <<>>
    /\ messages = <<>>
    /\ chatContexts = NoContexts
    /\ toWorker = <<[type |-> "check"]>>
    /\ toClient = <<>>
    /\ tokenizer = FALSE
    /\ model = FALSE
    /\ contexts = <<>>
    /\ loadJobs = 0
    /\ gens = <<>>
    /\ handled = <<>>
    /\ truncateCall = NoTruncateCall

(***************************************************************************)
(* Scenarios: the same operations, each within its own bounds              *)
(***************************************************************************)
MaxCalls == 3
MaxStoreCalls == 4
MaxChannelCalls == 3
MaxPromptCalls == 4
MaxMessages == 7
MaxUniformMessages == 10
MaxStreamCalls == 2
MaxStreamChunks == 2

\* the calls the client has made: initializeWorker, sendContextCommand and
\* generateResponse
Calls == loads + Len(ctxCalls) + Len(genCalls)

\* useChat.addContext(text): id `ctx_${Date.now()}`, createdAt now
UseChatAddContext(text) ==
    SendContextCommandFor("addContext", "add",
                          [t |-> "object", id |-> Str(now), text |-> text,
                           createdAt |-> now])

\* useChat.removeContext(id): sendContextCommand('remove', { id })
UseChatRemoveContext(id) == SendContextCommandFor("removeContext", "remove", Obj(id))

\* useChat.clearContexts()
UseChatClearContexts == SendContextCommandFor("clearContexts", "clear", Undefined)

Load(n) == Calls < n /\ InitializeWorker

ContextCall(commands, n) ==
    /\ Calls < n
    /\ \E command \in commands : \E data \in Payloads(command) :
         SendContextCommand(command, data)

\* the texts the user sends
GenTexts == {"line"}
PromptTexts == {"line", "essay"}

Generate(texts, n) ==
    /\ Calls < n
    /\ \E userMessage \in texts : SendMessage(userMessage)

WorkerStep ==
    \/ WorkerCheck
    \/ WorkerLoadStart
    \/ WorkerLoadFinish
    \/ WorkerContext

\* a generation streams at most maxChunks chunks
WorkerGenSteps(maxChunks) ==
    \/ WorkerGenerateStart
    \/ \E c \in DOMAIN gens : gens[c].emitted < maxChunks /\ WorkerEmitChunk(c)
    \/ \E c \in DOMAIN gens : WorkerGenerateSuccess(c)
    \/ \E c \in DOMAIN gens : WorkerGenerateFail(c)

WorkerGenStep == WorkerGenSteps(MaxChunks)

\* the context store: add, remove, clear and list
NextStore ==
    \/ Load(MaxStoreCalls)
    \/ ContextCall(StoreCommands, MaxStoreCalls)
    \/ ClientReceive
    \/ Tick
    \/ WorkerStep

SpecStore == Init /\ [][NextStore]_vars

\* the command channel: every command name, known or not
NextChannel ==
    \/ Load(MaxChannelCalls)
    \/ ContextCall(Commands, MaxChannelCalls)
    \/ ClientReceive
    \/ Tick
    \/ WorkerStep

SpecChannel == Init /\ [][NextChannel]_vars

\* generations, with context commands in between
Next ==
    \/ Load(MaxCalls)
    \/ ContextCall(GenCommands, MaxCalls)
    \/ Generate(GenTexts, MaxCalls)
    \/ ClientReceive
    \/ Tick
    \/ WorkerStep
    \/ WorkerGenStep

Spec == Init /\ [][Next]_vars

\* the prompt of a generation: contexts are added and generations start
NextPrompt ==
    \/ Load(MaxPromptCalls)
    \/ ContextCall(PromptCommands, MaxPromptCalls)
    \/ Generate(PromptTexts, MaxPromptCalls)
    \/ ClientReceive
    \/ Tick
    \/ WorkerStep
    \/ WorkerGenerateStart

SpecPrompt == Init /\ [][NextPrompt]_vars

\* selection over a store whose contexts may have an empty text or fill
\* the budget alone
SelectTexts == {"", "sky", "page"}

AddCall(texts, n) ==
    /\ Calls < n
    /\ \E txt \in texts :
         SendContextCommand("add", [t |-> "object", id |-> Str(now), text |-> txt,
                                    createdAt |-> now])

NextSelect ==
    \/ Load(MaxPromptCalls)
    \/ AddCall(SelectTexts, MaxPromptCalls)
    \/ Generate(GenTexts, MaxPromptCalls)
    \/ ClientReceive
    \/ Tick
    \/ WorkerStep
    \/ WorkerGenerateStart

SpecSelect == Init /\ [][NextSelect]_vars

\* useChat's context operations: a text that fits and one that is too long
ChatTexts == {"sky", "essay"}

ChatContextCall(n) ==
    /\ Calls < n
    /\ \/ \E text \in ChatTexts : UseChatAddContext(text)
       \/ \E id \in {0} \cup {contexts[i].id.v : i \in 1..Len(contexts)} :
            UseChatRemoveContext(id)
       \/ UseChatClearContexts

NextChat ==
    \/ Load(MaxCalls)
    \/ ChatContextCall(MaxCalls)
    \/ ClientReceive
    \/ Tick
    \/ WorkerStep

SpecChat == Init /\ [][NextChat]_vars

\* a command name the worker does not know, with generations in between
UnknownCommands == {"purge"}

NextUnknown ==
    \/ Load(MaxCalls)
    \/ ContextCall(UnknownCommands, MaxCalls)
    \/ Generate(GenTexts, MaxCalls)
    \/ ClientReceive
    \/ Tick
    \/ WorkerStep
    \/ WorkerGenStep

SpecUnknown == Init /\ [][NextUnknown]_vars

\* one stream of several chunks, with a list command or a second load or
\* generation in between
StreamCommands == {"list"}

NextStream ==
    \/ Load(MaxStreamCalls)
    \/ ContextCall(StreamCommands, MaxStreamCalls)
    \/ Generate(GenTexts, MaxStreamCalls)
    \/ ClientReceive
    \/ Tick
    \/ WorkerStep
    \/ WorkerGenSteps(MaxStreamChunks)

SpecStream == Init /\ [][NextStream]_vars

\* the same, with the scheduling the platform gives: the worker handles
\* every message posted to it, the capability answers a load and ends a
\* generation, and every message posted to the client is dispatched
WorkerGenerateEnd ==
    \E c \in DOMAIN gens : WorkerGenerateSuccess(c) \/ WorkerGenerateFail(c)

SpecStreamFair ==
    /\ SpecStream
    /\ WF_vars(WorkerCheck)
    /\ WF_vars(WorkerLoadStart)
    /\ WF_vars(WorkerLoadFinish)
    /\ WF_vars(WorkerContext)
    /\ WF_vars(WorkerGenerateStart)
    /\ WF_vars(WorkerGenerateEnd)
    /\ WF_vars(ClientReceive)

(***************************************************************************)
(* truncateMessages by itself: any message list, any of the budgets        *)
(***************************************************************************)
\* contents of 0, 20 and 50 tokens
Contents == {<<>>, <<"line">>, <<"para">>}

\* budgets: nothing, the one of the 10 x 20 scenario, and the worker's
Budgets == {0, 45, MAX_MESSAGE_LENGTH}

\* a conversation: messages 1..n, user and assistant in turn
Conversation(contentOf) ==
    [i \in DOMAIN contentOf |->
        [id |-> i, role |-> IF i % 2 = 1 THEN "user" ELSE "assistant",
         content |-> contentOf[i]]]

\* every conversation of up to MaxMessages messages, and the longer ones
\* whose messages all have the same content
MessageLists ==
    UNION {{Conversation(contentOf) : contentOf \in [1..n -> Contents]} :
             n \in 0..MaxMessages}
      \cup {Conversation([i \in 1..n |-> content]) :
               n \in 0..MaxUniformMessages, content \in Contents}

InitTruncate ==
    /\ status = "idle"
    /\ error = "null"
    /\ now = 1
    /\ loads = 0
    /\ ctxCalls = <<>>
    /\ genCalls = <<>>
    /\ messages = <<>>
    /\ chatContexts = NoContexts
    /\ toWorker = <<>>
    /\ toClient = <<>>
    /\ tokenizer = TRUE
    /\ model = TRUE
    /\ contexts = <<>>
    /\ loadJobs = 0
    /\ gens = <<>>
    /\ handled = <<>>
    /\ \E msgs \in MessageLists : \E maxTokens \in Budgets :
          truncateCall = [messages |-> msgs, maxTokens |-> maxTokens,
                          returned |-> FALSE, truncatedMessages |-> <<>>]

\* the call returns
TruncateReturn ==
    /\ ~truncateCall.returned
    /\ truncateCall' =
          [truncateCall EXCEPT
             !.returned = TRUE,
             !.truncatedMessages =
                 TruncateMessages(truncateCall.messages, truncateCall.maxTokens)]
    /\ UNCHANGED clientVars
    /\ UNCHANGED workerVars
    /\ UNCHANGED <<toWorker, toClient>>

NextTruncate == TruncateReturn

SpecTruncate == InitTruncate /\ [][NextTruncate]_vars

(***************************************************************************)
(* Properties                                                              *)
(***************************************************************************)
GenCallIds == 1..Len(genCalls)
CtxCallIds == 1..Len(ctxCalls)

\* the message the client dispatches in this step, if it dispatches one
Dispatching == toClient # <<>> /\ toClient' = Tail(toClient)

TotalBudgetError == Err("Adding this context would exceed total token limit")
TooLongError == Err("Context too long")

\* C1: in every reachable state the token counts of the stored contexts sum
\* to at most MAX_TOTAL_LENGTH (an add checks the budget and inserts in one
\* step of the worker, whatever commands are outstanding).
C1_TotalWithinBudget == SumTokens(contexts) <= MAX_TOTAL_LENGTH

\* the store is full, an add was refused on the total budget, and two
\* commands are outstanding at once
C1_Witness ==
    /\ SumTokens(contexts) = MAX_TOTAL_LENGTH
    /\ \E r \in DOMAIN handled :
         /\ handled[r] # <<>>
         /\ handled[r][1].data = TotalBudgetError
    /\ \E r1, r2 \in CtxCallIds :
         r1 # r2 /\ ctxCalls[r1].state = "pending" /\ ctxCalls[r2].state = "pending"

\* C2: a generateResponse() call made while an earlier call is still
\* pending is refused with a Busy error and posts no generate message.
C2_SecondGenerateBusy ==
    \A c \in GenCallIds :
        (genCalls[c].busyAtCall /\ genCalls[c].statusAtCall = "ready")
            => /\ ~genCalls[c].sent
               /\ genCalls[c].state = "rejected"
               /\ genCalls[c].value = Err("Busy")

\* C3: every chunk passed to a call's onUpdate was produced by that call's
\* own generation.
C3_OwnChunksOnly ==
    \A c \in GenCallIds :
        \A k \in 1..Len(genCalls[c].chunks) : genCalls[c].chunks[k].gen = c

\* C4: a generateResponse() call made while status is idle, loading or
\* error is rejected with the not-ready error, never receives a chunk and
\* posts no generate message (the worker never starts a generation for it).
C4_NotReadyRejected ==
    \A c \in GenCallIds :
        genCalls[c].statusAtCall # "ready"
            => /\ genCalls[c].state = "rejected"
               /\ genCalls[c].value = Err("Worker not ready")
               /\ genCalls[c].chunks = <<>>
               /\ ~genCalls[c].sent
               /\ c \notin DOMAIN gens
               /\ \A i \in 1..Len(toWorker) :
                    toWorker[i].type = "generate" => toWorker[i].call # c

\* a call refused while loading stays without chunks while a later call
\* streams
C4_Witness ==
    \E c, d \in GenCallIds :
        /\ genCalls[c].statusAtCall = "loading"
        /\ genCalls[d].chunks # <<>>

\* C5: a context command's promise is settled by the response the worker
\* produced for that very command.
C5_SettledByOwnResponse ==
    \A r \in CtxCallIds :
        (ctxCalls[r].sent /\ ctxCalls[r].state # "pending")
            => ctxCalls[r].by = [kind |-> "ctx", id |-> r]

\* C6: two context commands outstanding at the same time carry different
\* messageIds.
C6_DistinctTokens ==
    \A r1, r2 \in CtxCallIds :
        (r1 # r2 /\ ctxCalls[r1].state = "pending" /\ ctxCalls[r2].state = "pending")
            => ctxCalls[r1].messageId # ctxCalls[r2].messageId

\* the responses to request r that are on their way to the client
InFlightResponses(r) ==
    {i \in 1..Len(toClient) : toClient[i].src = [kind |-> "ctx", id |-> r]}

IsCapacityError(m) ==
    /\ m.status = "error"
    /\ m.src.kind = "ctx"
    /\ (m.data = TooLongError \/ m.data = TotalBudgetError)

\* C8: the dispatch of a capacity error (context too long, total budget
\* exceeded) returned for an add leaves status and error as they were.
C8_CapacityErrorKeepsStatus ==
    [][(Dispatching /\ IsCapacityError(Head(toClient)))
          => (status' = status /\ error' = error)]_vars

\* C9: a generateResponse() call is resolved only by the success message of
\* its own generation, after every chunk of that generation reached onUpdate.
C9_ResolvedByOwnCompletion ==
    \A c \in GenCallIds :
        genCalls[c].state = "resolved"
            => /\ genCalls[c].by = [kind |-> "gen", id |-> c]
               /\ c \in DOMAIN gens
               /\ gens[c].phase = "success"
               /\ Cardinality({k \in 1..Len(genCalls[c].chunks) :
                                 genCalls[c].chunks[k].gen = c}) = gens[c].emitted

\* message m is the error the worker posted for the failed generation c
GenFailure(m, c) == m.status = "error" /\ m.src = [kind |-> "gen", id |-> c]

\* C10: when generation c has failed in the worker and its call is still
\* pending, the error message is on its way; and when that message is
\* dispatched while the call is pending, the call rejects with the
\* message's error and status becomes error.
C10_FailureRejects ==
    /\ [](\A c \in DOMAIN gens :
            (gens[c].phase = "failed" /\ genCalls[c].state = "pending")
               => \E i \in 1..Len(toClient) : GenFailure(toClient[i], c))
    /\ [][\A c \in GenCallIds :
            (Dispatching /\ GenFailure(Head(toClient), c)
                /\ genCalls[c].state = "pending")
               => /\ genCalls'[c].state = "rejected"
                  /\ genCalls'[c].value = Head(toClient).data
                  /\ status' = "error"
                  /\ error' = Head(toClient).data.message]_vars

\* a generation failed after streaming a chunk, its call was rejected by
\* that failure with the chunk delivered, and status is error
C10_Witness ==
    \E c \in GenCallIds :
        /\ genCalls[c].state = "rejected"
        /\ genCalls[c].by = [kind |-> "gen", id |-> c]
        /\ genCalls[c].value = Err("Generation failed")
        /\ genCalls[c].chunks # <<>>
        /\ status = "error"

\* C11: status changes only from idle to loading, from loading to ready, or
\* from any state to error: it never leaves error, and never goes from idle
\* straight to ready.
C11_StatusTransitions ==
    [][status' # status
         => \/ (status = "idle" /\ status' = "loading")
            \/ (status = "loading" /\ status' = "ready")
            \/ status' = "error"]_vars

\* C12: every stored context has a token count of at most MAX_CONTEXT_LENGTH,
\* and it is the token count of the context's text.
C12_EachWithinLimit ==
    \A i \in 1..Len(contexts) :
        /\ contexts[i].tokens <= MAX_CONTEXT_LENGTH
        /\ contexts[i].tokens = Tokenize(contexts[i].text)

\* a context of exactly MAX_CONTEXT_LENGTH tokens is stored and the add of a
\* longer text was refused as too long
C12_Witness ==
    /\ \E i \in 1..Len(contexts) : contexts[i].tokens = MAX_CONTEXT_LENGTH
    /\ \E r \in DOMAIN handled :
          /\ toWorker = <<>>
          /\ ctxCalls[r].command = "add"
          /\ handled[r] # <<>>
          /\ handled[r][1].data = TooLongError

\* the worker takes a context message with this command off its queue in
\* this step
HandlingContext(command) ==
    /\ toWorker # <<>>
    /\ Head(toWorker).type = "context"
    /\ Head(toWorker).command = command
    /\ toWorker' = Tail(toWorker)

\* the response the worker posts in this step to the message it handles
PostedNow == handled'[Head(toWorker).req][1]

\* the add payloads a caller can send now
AddPayloads == Payloads("add")

\* C13: an add that is rejected (too long, total budget exceeded, or no
\* tokenizer) leaves the store exactly as it was: for every add that could
\* be applied to the current store, and for every add the worker handles.
C13_RejectedAddKeepsStore ==
    /\ [](\A data \in AddPayloads : \A tok \in BOOLEAN :
            LET r == AddContext(contexts, data, tok) IN
            (~r.ok) => r.contexts = contexts)
    /\ [][(HandlingContext("add") /\ PostedNow.status = "error")
            => contexts' = contexts]_vars

\* the last of three adds was refused on the total budget and the two
\* contexts stored before it are still the store
C13_Witness ==
    /\ Len(ctxCalls) = 3
    /\ 3 \in DOMAIN handled
    /\ ctxCalls[3].command = "add"
    /\ handled[3][1].data = TotalBudgetError
    /\ Len(contexts) = 2
    /\ SumTokens(contexts) > MAX_CONTEXT_LENGTH

\* C14: when the worker handles an add and answers success, the totalTokens
\* it returns is the sum of the token counts of the contexts stored right
\* after that add, and the added context is the last of them.
C14_AddReturnsNewTotal ==
    [][(HandlingContext("add") /\ PostedNow.status = "success")
         => /\ PostedNow.data.totalTokens = SumTokens(contexts')
            /\ Len(contexts') = Len(contexts) + 1
            /\ PostedNow.data.tokenCount = contexts'[Len(contexts')].tokens]_vars

\* three adds succeeded on a store that grew each time, the last one
\* returning the total of all three contexts
C14_Witness ==
    /\ Len(contexts) = 3
    /\ 3 \in DOMAIN handled
    /\ handled[3][1].status = "success"
    /\ handled[3][1].data.totalTokens = SumTokens(contexts)
    /\ handled[3][1].data.totalTokens > handled[2][1].data.totalTokens
    /\ handled[2][1].data.totalTokens > handled[1][1].data.totalTokens

\* the contexts of a store that have the id named by a remove payload {id}
WithId(ctxs, data) == SelectSeq(ctxs, LAMBDA ctx : ctx.id = data.id)

\* C15: when the worker handles a remove whose payload {id} names a stored
\* context, the store afterwards, and so a following list, has no context
\* with that id, and the totalTokens returned is the previous total minus
\* the removed context's tokens.
C15_RemoveRemoves ==
    [][(HandlingContext("remove")
          /\ WithId(contexts, Head(toWorker).data) # <<>>)
         => /\ WithId(ListContexts(contexts').data.list,
                      Head(toWorker).data) = <<>>
            /\ PostedNow.data.totalTokens
                 = SumTokens(contexts)
                     - SumTokens(WithId(contexts, Head(toWorker).data))]_vars

\* the id a remove argument names: the argument itself, or the id of a
\* payload {id}
NamedId(arg) == IF arg.t = "object" THEN arg.id ELSE arg

\* no stored context has the id the argument names
Absent(ctxs, arg) == \A i \in 1..Len(ctxs) : ctxs[i].id # NamedId(arg)

\* the arguments removeContext can be given now: a stored id or one that is
\* not stored, as a string or as the payload {id}
RemoveArgs ==
    LET ids == {0} \cup {contexts[i].id.v : i \in 1..Len(contexts)}
    IN {Str(n) : n \in ids} \cup {Obj(n) : n \in ids}

\* C16: remove never fails and is idempotent. On every store, removing with
\* the same argument twice succeeds both times with the same totalTokens and
\* the second removal changes nothing; removing an id that is not stored
\* leaves the store unchanged and returns its total. Every remove the worker
\* handles is answered success with the total of the store it leaves, and
\* leaves the store unchanged when the id is not stored.
C16_RemoveIdempotent ==
    /\ [](\A arg \in RemoveArgs :
            LET r1 == RemoveContext(contexts, arg)
                r2 == RemoveContext(r1.contexts, arg)
            IN /\ r1.ok /\ r2.ok
               /\ r2.contexts = r1.contexts
               /\ r2.data.totalTokens = r1.data.totalTokens
               /\ Absent(contexts, arg)
                    => /\ r1.contexts = contexts
                       /\ r1.data.totalTokens = SumTokens(contexts))
    /\ [][HandlingContext("remove")
            => /\ PostedNow.status = "success"
               /\ PostedNow.data.totalTokens = SumTokens(contexts')
               /\ Absent(contexts, Head(toWorker).data)
                    => contexts' = contexts]_vars

\* with a context stored, the same id that is not stored was removed twice
\* and both removals returned the total of the unchanged store
C16_Witness ==
    \E r1, r2 \in DOMAIN handled :
        /\ r1 < r2
        /\ ctxCalls[r1].command = "remove"
        /\ ctxCalls[r2].command = "remove"
        /\ ctxCalls[r1].data = ctxCalls[r2].data
        /\ Absent(contexts, ctxCalls[r1].data)
        /\ contexts # <<>>
        /\ handled[r1][1].data.totalTokens = SumTokens(contexts)
        /\ handled[r2][1].data.totalTokens = SumTokens(contexts)

\* C17: whatever the store holds, when the worker handles a clear it answers
\* success with totalTokens 0 and leaves the store empty, so that a list of
\* the store it leaves returns no context.
C17_ClearEmpties ==
    [][HandlingContext("clear")
         => /\ PostedNow.status = "success"
            /\ PostedNow.data.totalTokens = 0
            /\ contexts' = <<>>
            /\ ListContexts(contexts').data.list = <<>>]_vars

\* two contexts were added, a clear answered totalTokens 0, and the store is
\* empty
C17_Witness ==
    /\ Len(ctxCalls) = 3
    /\ DOMAIN handled = 1..3
    /\ ctxCalls[1].command = "add"
    /\ ctxCalls[2].command = "add"
    /\ ctxCalls[3].command = "clear"
    /\ handled[1][1].status = "success"
    /\ handled[2][1].status = "success"
    /\ handled[2][1].data.totalTokens > MAX_CONTEXT_LENGTH
    /\ handled[3][1].data.totalTokens = 0
    /\ contexts = <<>>

\* the contexts of a listing are ordered most recently created first
NewestFirst(list) ==
    \A i, j \in 1..Len(list) :
        list[i].createdAt > list[j].createdAt => i < j

\* C18: every list the worker answers holds the stored contexts most
\* recently created first: of two contexts, the one with the later
\* createdAt comes first.
C18_ListNewestFirst ==
    \A r \in DOMAIN handled :
        (ctxCalls[r].command = "list" /\ handled[r] # <<>>)
           => /\ handled[r][1].status = "success"
              /\ NewestFirst(handled[r][1].data.list)

\* C19: a list is accepted whatever the status is (it is never refused by
\* the client, and is posted to the worker), and when the worker handles it
\* the answer is success with the contexts the store holds at that moment,
\* and the store is left as it was.
C19_ListAlwaysAnswered ==
    /\ [](\A r \in CtxCallIds :
            ctxCalls[r].command = "list"
               => /\ ctxCalls[r].sent
                  /\ ctxCalls[r].value # Err("Worker not ready"))
    /\ [][HandlingContext("list")
            => /\ PostedNow.status = "success"
               /\ PostedNow.data.list = contexts
               /\ contexts' = contexts]_vars

\* a list called while a generation was pending has been answered by the
\* worker while that generation is still running
C19_Witness ==
    \E r \in DOMAIN handled : \E c \in DOMAIN gens :
        /\ ctxCalls[r].command = "list"
        /\ ctxCalls[r].busyAtCall
        /\ handled[r] # <<>>
        /\ handled[r][1].status = "success"
        /\ gens[c].phase = "running"

\* C20: for every store, the contexts that budget-fill selection chooses
\* have token counts that sum to at most MAX_CONTEXT_LENGTH: for the store
\* as it is now, and for the selection every generation made when it
\* started.
C20_SelectionWithinLimit ==
    /\ SumTokens(SelectedContexts(contexts)) <= MAX_CONTEXT_LENGTH
    /\ \A c \in DOMAIN gens :
          SumTokens(gens[c].selected) <= MAX_CONTEXT_LENGTH

\* a generation started on a store of two contexts that together exceed
\* MAX_CONTEXT_LENGTH, and selected the more recent one only
C20_Witness ==
    \E c \in DOMAIN gens :
        /\ gens[c].phase = "running"
        /\ Len(contexts) = 2
        /\ SumTokens(contexts) > MAX_CONTEXT_LENGTH
        /\ contexts[2].createdAt > contexts[1].createdAt
        /\ gens[c].selected = <<contexts[2]>>

\* seq holds the same contexts as the store, each as often, with no
\* context before a more recent one
NewestFirstOrderOf(seq, ctxs) ==
    /\ Len(seq) = Len(ctxs)
    /\ \A i \in 1..Len(ctxs) :
          Cardinality({j \in 1..Len(seq) : seq[j] = ctxs[i]})
             = Cardinality({j \in 1..Len(ctxs) : ctxs[j] = ctxs[i]})
    /\ \A i, j \in 1..Len(seq) :
          i < j => seq[i].createdAt >= seq[j].createdAt

\* sel is what is taken from the front of sorted until the first context
\* that would take the total past MAX_CONTEXT_LENGTH
GreedyPrefixOf(sel, sorted) ==
    /\ Len(sel) <= Len(sorted)
    /\ sel = SubSeq(sorted, 1, Len(sel))
    /\ SumTokens(sel) <= MAX_CONTEXT_LENGTH
    /\ Len(sel) < Len(sorted)
         => SumTokens(sel) + sorted[Len(sel) + 1].tokens > MAX_CONTEXT_LENGTH

\* C21: budget-fill selection returns a prefix of the stored contexts
\* ordered newest first: it takes contexts in that order while the running
\* total stays within MAX_CONTEXT_LENGTH and stops at the first one that
\* would overflow, so that nothing older than a rejected context is chosen.
C21_SelectionIsGreedyPrefix ==
    /\ NewestFirstOrderOf(SortedContexts(contexts), contexts)
    /\ GreedyPrefixOf(SelectedContexts(contexts), SortedContexts(contexts))

\* a store of three contexts where the newest is selected, the next one is
\* rejected, and the oldest, which would still fit, is left out with it
C21_Witness ==
    /\ Len(contexts) = 3
    /\ contexts[1].createdAt < contexts[2].createdAt
    /\ contexts[2].createdAt <= contexts[3].createdAt
    /\ SelectedContexts(contexts) = <<contexts[3]>>
    /\ contexts[3].tokens + contexts[1].tokens <= MAX_CONTEXT_LENGTH

\* the call of truncateMessages that has returned: its arguments and result
TruncInput == truncateCall.messages
TruncBudget == truncateCall.maxTokens
TruncResult == truncateCall.truncatedMessages

\* the tokens of a list of messages
RECURSIVE MessageTokens(_)
MessageTokens(msgs) ==
    IF msgs = <<>> THEN 0
    ELSE GetTokenCount(Head(msgs).content) + MessageTokens(Tail(msgs))

\* result is the last Len(result) messages of input, in their order
IsSuffix(result, input) ==
    /\ Len(result) <= Len(input)
    /\ result = SubSeq(input, Len(input) - Len(result) + 1, Len(input))

\* C22: for every message list and budget, truncateMessages returns a
\* contiguous suffix of its input in the original order: the messages it
\* keeps are the last ones, none reordered, duplicated or skipped.
C22_TruncateIsSuffix ==
    truncateCall.returned => IsSuffix(TruncResult, TruncInput)

\* a conversation of mixed contents was cut in the middle: some messages
\* were kept, some dropped, and a dropped one would have fit by itself
C22_Witness ==
    /\ truncateCall.returned
    /\ TruncResult # <<>>
    /\ Len(TruncResult) + 2 <= Len(TruncInput)
    /\ \E i \in 1..(Len(TruncInput) - Len(TruncResult) - 1) :
          MessageTokens(TruncResult) + GetTokenCount(TruncInput[i].content)
             <= TruncBudget
    /\ \E i, j \in 1..Len(TruncResult) :
          TruncResult[i].content # TruncResult[j].content

\* C23: truncateMessages returns the longest suffix that fits: the messages
\* kept have at most maxTokens tokens in total, and either the whole input
\* is kept or the next older message would take the total past maxTokens.
C23_TruncateLongestSuffix ==
    truncateCall.returned =>
        /\ IsSuffix(TruncResult, TruncInput)
        /\ MessageTokens(TruncResult) <= TruncBudget
        /\ Len(TruncResult) < Len(TruncInput)
             => MessageTokens(TruncResult)
                  + GetTokenCount(TruncInput[Len(TruncInput)
                                               - Len(TruncResult)].content)
                  > TruncBudget

\* ten messages of 20 tokens with maxTokens 45: the last two are returned
C23_Witness ==
    /\ truncateCall.returned
    /\ Len(TruncInput) = 10
    /\ \A i \in 1..10 : GetTokenCount(TruncInput[i].content) = 20
    /\ TruncBudget = 45
    /\ TruncResult = <<TruncInput[9], TruncInput[10]>>

\* the positions of the system messages in a list of messages
SystemAt(msgs) == {i \in 1..Len(msgs) : msgs[i].role = "system"}

\* C24: the prompt of a generation is the truncated history, preceded by
\* one synthesized system message when the selected context text is not
\* empty and by nothing when it is empty; it never holds more than one
\* system message.
C24_PromptAssembly ==
    \A c \in DOMAIN gens :
        gens[c].phase # "failed" =>
            LET prompt == gens[c].prompt
                history == TruncateMessages(genCalls[c].messages,
                                            MAX_MESSAGE_LENGTH)
                bodies == [i \in 1..Len(gens[c].selected) |->
                              gens[c].selected[i].text]
            IN /\ Cardinality(SystemAt(prompt)) <= 1
               /\ SystemAt(history) = {}
               /\ IsSuffix(history, genCalls[c].messages)
               /\ IF NonEmptyText(bodies)
                  THEN /\ prompt # <<>>
                       /\ SystemAt(prompt) = {1}
                       /\ prompt[1] = SystemMessage(bodies)
                       /\ Tail(prompt) = history
                  ELSE prompt = history

\* one generation started on an empty store and has the history alone as
\* its prompt; a later one started with a context stored and has the system
\* message, then a history of three messages
C24_Witness ==
    \E c1, c2 \in DOMAIN gens :
        /\ gens[c1].selected = <<>>
        /\ gens[c1].prompt # <<>>
        /\ SystemAt(gens[c1].prompt) = {}
        /\ gens[c2].selected # <<>>
        /\ SystemAt(gens[c2].prompt) = {1}
        /\ Len(gens[c2].prompt) = 4

(***************************************************************************)
(* C25: the system message the worker synthesizes is never added to the    *)
(* caller's history: after any sequence of sendMessage calls useChat's     *)
(* messages are, call by call, the user message created from the call's    *)
(* text followed by the assistant message created with it, whatever the    *)
(* worker selected; neither the list nor any history handed to             *)
(* generateResponse or posted to the worker holds a system message         *)
(***************************************************************************)
Roles(msgs) == {msgs[i].role : i \in 1..Len(msgs)}

C25_HistoryHasNoSystemMessage ==
    /\ Len(messages) = 2 * Len(genCalls)
    /\ \A c \in GenCallIds :
         LET sent == genCalls[c].messages
         IN /\ messages[2 * c - 1] = sent[Len(sent)]
            /\ messages[2 * c - 1].role = "user"
            /\ messages[2 * c].role = "assistant"
            /\ Len(sent) = 2 * c - 1
            /\ "system" \notin Roles(sent)
    /\ "system" \notin Roles(messages)
    /\ \A i \in 1..Len(toWorker) :
         toWorker[i].type = "generate" => "system" \notin Roles(toWorker[i].data)

\* a generation whose prompt began with the synthesized system message has
\* streamed its chunk into the assistant message and completed
C25_Witness ==
    \E c \in DOMAIN gens :
      /\ SystemAt(gens[c].prompt) = {1}
      /\ genCalls[c].state = "resolved"
      /\ genCalls[c].chunks # <<>>
      /\ messages[2 * c].content # <<>>

\* the chunks of generation c that call c's onUpdate has received, in the
\* order of receipt
OwnChunks(c) ==
    LET Own(chunk) == chunk.gen = c
    IN SelectSeq(genCalls[c].chunks, Own)

\* the chunks of generation c that are posted and not yet dispatched
OwnChunksInFlight(c) ==
    Cardinality({i \in 1..Len(toClient) :
                   toClient[i].status = "update" /\ toClient[i].src.id = c})

\* what onUpdate of call c has received of its generation is the first,
\* second, ... chunk produced, each once
InOrderProduced(c) == \A k \in 1..Len(OwnChunks(c)) : OwnChunks(c)[k].n = k

(***************************************************************************)
(* C26: the onUpdate of a generate call receives the chunks of its         *)
(* generation in exactly the order they were produced: the k-th chunk it   *)
(* receives is the k-th produced (none reordered, duplicated or merged),   *)
(* and every chunk produced has been received or is still on its way       *)
(* (none dropped)                                                          *)
(***************************************************************************)
C26_ChunksInOrderNoneLost ==
    \A c \in DOMAIN gens :
        /\ InOrderProduced(c)
        /\ Len(OwnChunks(c)) + OwnChunksInFlight(c) = gens[c].emitted

(***************************************************************************)
(* C27: when a generation fails mid-stream and its call is rejected by     *)
(* that failure, every chunk the generation produced has by then been      *)
(* passed to the call's onUpdate, in the order produced, and none is still *)
(* on its way; and once a call is rejected, for whatever reason, its       *)
(* onUpdate receives nothing more                                          *)
(***************************************************************************)
RejectedByOwnFailure(c) ==
    /\ genCalls[c].state = "rejected"
    /\ genCalls[c].by = [kind |-> "gen", id |-> c]

DispatchingGenProgress ==
    /\ Dispatching
    /\ Head(toClient).src.kind = "gen"
    /\ Head(toClient).status \in {"update", "success"}

(***************************************************************************)
(* C28: a generation that completes successfully leaves status and error   *)
(* as they are: the call is accepted with status ready, and neither its    *)
(* acceptance, nor a step of the generation in the worker, nor the         *)
(* dispatch of one of its chunks or of its completion changes status or    *)
(* error                                                                   *)
(***************************************************************************)
C28_SuccessKeepsStatus ==
    [][/\ (Len(genCalls') > Len(genCalls) /\ genCalls'[Len(genCalls')].sent)
          => status = "ready" /\ status' = status /\ error' = error
       /\ (gens' # gens \/ DispatchingGenProgress)
          => status' = status /\ error' = error]_vars

\* a call has been resolved by the completion of its own generation, after
\* a chunk, and status is ready
C28_Witness ==
    \E c \in GenCallIds :
        /\ genCalls[c].state = "resolved"
        /\ genCalls[c].by = [kind |-> "gen", id |-> c]
        /\ OwnChunks(c) # <<>>
        /\ gens[c].phase = "success"
        /\ status = "ready"
        /\ error = "null"

(***************************************************************************)
(* C29: initializeWorker sets status to loading, from idle as from any     *)
(* other status, and posts exactly one load request; and, the worker       *)
(* answering every load, a status of loading is always followed by a       *)
(* status of ready or error                                                *)
(***************************************************************************)
C29_LoadingEnds ==
    /\ [][loads' # loads
            => /\ loads' = loads + 1
               /\ status' = "loading"
               /\ toWorker' = Append(toWorker, [type |-> "load"])]_vars
    /\ (status = "loading") ~> (status \in {"ready", "error"})

\* initializeWorker was called once, from idle; the load succeeded, its
\* answer was dispatched and status is ready
C29_Witness ==
    /\ loads = 1
    /\ loadJobs = 0
    /\ model
    /\ toWorker = <<>>
    /\ toClient = <<>>
    /\ status = "ready"

\* the part of a generate call that its settlement fixes
Settlement(call) == <<call.state, call.value, call.by>>

(***************************************************************************)
(* C30: every accepted generate call is settled exactly once: a call that  *)
(* has resolved or rejected stays as it settled (never both, never a       *)
(* second time), and, every generation completing or failing, a pending    *)
(* call is eventually resolved or rejected                                 *)
(***************************************************************************)
C30_SettledExactlyOnce ==
    /\ [](\A c \in GenCallIds :
            /\ genCalls[c].state \in {"pending", "resolved", "rejected"}
            /\ genCalls[c].sent <=> genCalls[c].by.kind # "client")
    /\ [][\A c \in GenCallIds :
            genCalls[c].state # "pending"
               => Settlement(genCalls'[c]) = Settlement(genCalls[c])]_vars
    /\ \A c \in 1..MaxStreamCalls :
         (c \in GenCallIds /\ genCalls[c].state = "pending")
            ~> (c \in GenCallIds /\ genCalls[c].state # "pending")

\* an accepted call has resolved on the completion of its generation after
\* every chunk the stream may have
C30_Witness ==
    \E c \in GenCallIds :
        /\ genCalls[c].sent
        /\ genCalls[c].state = "resolved"
        /\ gens[c].phase = "success"
        /\ Len(OwnChunks(c)) = MaxStreamChunks

(***************************************************************************)
(* C31: context ids are unique in the store: after any sequence of add,    *)
(* remove and clear commands no two stored contexts have the same id       *)
(***************************************************************************)
C31_UniqueIds ==
    \A i, j \in 1..Len(contexts) : contexts[i].id = contexts[j].id => i = j

\* the worker posts a message in this step, and the message it posts
WorkerPosts == Len(toClient') = Len(toClient) + 1
Posted == toClient'[Len(toClient')]

\* generation c has ended, with success or with a failure
Ended(c) == c \in DOMAIN gens /\ gens[c].phase \in {"success", "failed"}

(***************************************************************************)
(* C32: for each generate request the worker handles, it posts zero or     *)
(* more update messages and then exactly one terminal message, success or  *)
(* error: an update is posted only before the generation has ended, the    *)
(* terminal message is posted in the step that ends it, an ended           *)
(* generation stays ended and posts nothing more, and every generate       *)
(* request posted to the worker reaches its end                            *)
(***************************************************************************)
C32_UpdatesThenOneTerminal ==
    /\ [][\A c \in GenCallIds :
            /\ (WorkerPosts /\ Posted.src = [kind |-> "gen", id |-> c])
                  => /\ ~Ended(c)
                     /\ Posted.status \in {"update", "success", "error"}
                     /\ Posted.status = "update" <=> ~Ended(c)'
            /\ (~Ended(c) /\ Ended(c)')
                  => /\ WorkerPosts
                     /\ Posted.src = [kind |-> "gen", id |-> c]
                     /\ Posted.status = (IF gens'[c].phase = "success"
                                         THEN "success" ELSE "error")
            /\ Ended(c) => Ended(c)']_vars
    /\ \A c \in 1..MaxStreamCalls :
         (c \in GenCallIds /\ genCalls[c].sent) ~> Ended(c)

\* the worker has posted two updates and then the success of one
\* generation, none of them dispatched yet
C32_Witness ==
    \E c \in DOMAIN gens :
        /\ gens[c].phase = "success"
        /\ Len(toClient) = 3
        /\ \A i \in 1..3 : toClient[i].src = [kind |-> "gen", id |-> c]
        /\ toClient[1].status = "update"
        /\ toClient[2].status = "update"
        /\ toClient[3].status = "success"

\* the commands the claim is about
GatedCommands == {"add", "remove", "clear"}

\* sendContextCommand is called in this step, and the call it makes
CallingContext == Len(ctxCalls') = Len(ctxCalls) + 1
NewCall == ctxCalls'[Len(ctxCalls')]

(***************************************************************************)
(* C33: a context command other than list issued while status is not ready *)
(* is rejected with the not-ready error, posts nothing to the worker and   *)
(* leaves the store as it is; the worker never handles it                  *)
(***************************************************************************)
C33_NotReadyCommandRejected ==
    /\ [][(CallingContext /\ status # "ready" /\ NewCall.command # "list")
            => /\ NewCall.state = "rejected"
               /\ NewCall.value = Err("Worker not ready")
               /\ ~NewCall.sent
               /\ toWorker' = toWorker
               /\ contexts' = contexts]_vars
    /\ [](\A r \in CtxCallIds :
            ~ctxCalls[r].sent
               => /\ r \notin DOMAIN handled
                  /\ \A i \in 1..Len(toWorker) :
                       toWorker[i].type = "context" => toWorker[i].req # r)

\* add, remove and clear were each called before initializeWorker, with
\* status idle, and rejected
C33_Witness ==
    /\ loads = 0
    /\ status = "idle"
    /\ \A command \in GatedCommands :
         \E r \in CtxCallIds :
            /\ ctxCalls[r].command = command
            /\ ctxCalls[r].state = "rejected"
            /\ ~ctxCalls[r].sent

\* the command name of request r is none of add, remove, clear and list
UnknownName(r) == ctxCalls[r].command \notin StoreCommands

(***************************************************************************)
(* C34: a context command with an unknown name is answered by the worker   *)
(* with one error response that carries the request's messageId, the       *)
(* store stays as it is, and neither the worker's handling of the command  *)
(* nor the dispatch of its response changes status                         *)
(***************************************************************************)
C34_UnknownCommandAnswered ==
    [][/\ (toWorker # <<>> /\ Head(toWorker).type = "context"
             /\ toWorker' = Tail(toWorker) /\ UnknownName(Head(toWorker).req))
          => /\ Len(handled'[Head(toWorker).req]) = 1
             /\ PostedNow.status = "error"
             /\ PostedNow.messageId = Head(toWorker).messageId
             /\ toClient' = Append(toClient, PostedNow)
             /\ contexts' = contexts
             /\ status' = status
       /\ (Dispatching /\ Head(toClient).src.kind = "ctx"
             /\ UnknownName(Head(toClient).src.id))
          => status' = status]_vars

\* the streamed chunks among the pieces of a message's content
StreamedPieces(content) ==
    LET IsOutput(piece) == piece \in Outputs
    IN SelectSeq(content, IsOutput)

(***************************************************************************)
(* C35: each streamed chunk is appended to the assistant message created   *)
(* by the sendMessage call whose generation produced it, and to no other:  *)
(* the chunks in the assistant message of call c are the chunks of         *)
(* generation c that the call's onUpdate received, in that order, also     *)
(* when sendMessage is called again before generation c has finished       *)
(***************************************************************************)
C35_ChunksInOwnMessage ==
    \A c \in GenCallIds :
        StreamedPieces(messages[2 * c].content)
            = [k \in 1..Len(OwnChunks(c)) |-> OwnChunks(c)[k].output]

(***************************************************************************)
(* C36: whenever the worker starts a generation, the prompt it hands to    *)
(* the capability is not empty and its last element is the latest user     *)
(* message, the last message of the history the call was made with         *)
(***************************************************************************)
C36_PromptEndsWithUserMessage ==
    \A c \in DOMAIN gens :
        gens[c].phase = "running"
            => LET prompt == gens[c].prompt
                   sent == genCalls[c].messages
               IN /\ prompt # <<>>
                  /\ prompt[Len(prompt)] = sent[Len(sent)]
                  /\ prompt[Len(prompt)].role = "user"

\* the worker starts a generation in this step, with tokenizer and model
\* loaded, and the generation it starts
StartingGeneration ==
    /\ toWorker # <<>>
    /\ Head(toWorker).type = "generate"
    /\ toWorker' = Tail(toWorker)
    /\ tokenizer /\ model
Started == gens'[Head(toWorker).call]

\* no context of ctxs was created later than ctx
Newest(ctxs, ctx) == \A i \in 1..Len(ctxs) : ctxs[i].createdAt <= ctx.createdAt

\* the selection is one context and its text is empty
OnlyEmptyText(selected) == Len(selected) = 1 /\ selected[1].text = ""

(***************************************************************************)
(* C37 as stated: whenever the store is non-empty, the selection is        *)
(* non-empty and includes the most recently created context, and the       *)
(* prompt of a generation started then carries the synthesized system      *)
(* message                                                                 *)
(***************************************************************************)
C37_StoreGivesSystemMessage ==
    [][(StartingGeneration /\ contexts # <<>>)
          => /\ Started.selected # <<>>
             /\ Newest(contexts, Started.selected[1])
             /\ SystemAt(Started.prompt) = {1}]_vars

(***************************************************************************)
(* C37 amended: whenever the store is non-empty, the selection is          *)
(* non-empty and includes a context created latest; the prompt of a        *)
(* generation started then carries the synthesized system message unless   *)
(* the selection is a single context with an empty text, and then it       *)
(* carries none                                                            *)
(***************************************************************************)
C37_NewestSelected ==
    /\ [](contexts # <<>>
            => /\ SelectedContexts(contexts) # <<>>
               /\ Newest(contexts, SelectedContexts(contexts)[1]))
    /\ [][(StartingGeneration /\ contexts # <<>>)
            => /\ Started.selected = SelectedContexts(contexts)
               /\ IF OnlyEmptyText(Started.selected)
                  THEN SystemAt(Started.prompt) = {}
                  ELSE SystemAt(Started.prompt) = {1}]_vars

\* a generation started over a store whose only selected context has an
\* empty text: its prompt is the history alone
C37_Witness ==
    \E c \in DOMAIN gens :
        /\ OnlyEmptyText(gens[c].selected)
        /\ gens[c].prompt # <<>>
        /\ SystemAt(gens[c].prompt) = {}

\* the errors of a worker that has not loaded
NotInitialized(d) ==
    d = Err("Model not initialized") \/ d = Err("Tokenizer not initialized")

(***************************************************************************)
(* C38: whenever the client's status is ready the worker holds a loaded    *)
(* tokenizer and a loaded model, and no generate or add request the client *)
(* accepted fails in the worker with 'Model not initialized' or            *)
(* 'Tokenizer not initialized': such a request waits only for a loaded     *)
(* worker, no such error is posted, and no call is settled with one        *)
(***************************************************************************)
C38_ReadyMeansLoaded ==
    /\ status = "ready" => tokenizer /\ model
    /\ \A i \in 1..Len(toWorker) :
         toWorker[i].type = "generate"
            \/ (toWorker[i].type = "context" /\ toWorker[i].command = "add")
               => tokenizer /\ model
    /\ \A i \in 1..Len(toClient) : ~NotInitialized(toClient[i].data)
    /\ \A c \in GenCallIds : ~NotInitialized(genCalls[c].value)
    /\ \A r \in CtxCallIds : ~NotInitialized(ctxCalls[r].value)

\* with status ready, the worker has stored an accepted add and started an
\* accepted generation
C38_Witness ==
    /\ status = "ready"
    /\ contexts # <<>>
    /\ \E c \in DOMAIN gens : gens[c].phase = "running" /\ genCalls[c].sent

\* a context command is outstanding: its promise is pending, or its message
\* or its response is still on the way
Outstanding ==
    \/ \E r \in CtxCallIds : ctxCalls[r].state = "pending"
    \/ \E i \in 1..Len(toWorker) : toWorker[i].type = "context"
    \/ \E i \in 1..Len(toClient) : toClient[i].src.kind = "ctx"

(***************************************************************************)
(* C39: whenever no context command is outstanding, the context list held  *)
(* by useChat equals the list stored in the worker, after any sequence and *)
(* interleaving of addContext, removeContext and clearContexts calls, the  *)
(* calls that fail included                                                *)
(***************************************************************************)
C39_ChatContextsMatchStore ==
    ~Outstanding => chatContexts = ListContexts(contexts).data

====
